---- MODULE Spec2Model ----
(***************************************************************************)
(* Model of src/app.py: the finance ledger (two sqlite tables), the        *)
(* interactive entry forms, the bulk import, the export, and the three     *)
(* aggregations (calculate_metrics, project_profitability, monthly pivot). *)
(*                                                                         *)
(* Conventions.                                                            *)
(*   - The type labels '수입' / '지출' of the source are written Income /  *)
(*     Expense; Other stands for any other label an imported row carries.  *)
(*   - A date is <<year, month, day>>.  str(date) is the zero-padded ISO   *)
(*     text, whose text order (the one sqlite's BETWEEN and ORDER BY use)  *)
(*     is the lexicographic order of the triple: DateLeq.                  *)
(*   - Amounts are integers (won); a quotient is kept exact as the pair    *)
(*     <<numerator, denominator>>.                                         *)
(*   - NULL is SQL NULL / pandas NaN in a text column.                     *)
(***************************************************************************)
EXTENDS Integers, Sequences, FiniteSets, TLC

VARIABLES
    transactions,   \* table transactions, in rowid order
    projects,       \* table projects, in rowid order
    form,           \* widget values submitted with the last button press
    msg,            \* feedback of the last run (st.success / st.error / st.info)
    view            \* what the last run rendered (metrics, tables, export artifact)

vars == <<transactions, projects, form, msg, view>>

---------------------------------------------------------------------------
(* Bounds of the model *)

MaxLedger == 2      \* rows the transactions table may hold (operations model)
MaxBatch == 2       \* rows of an imported sheet
MaxRows == 3        \* rows of the ledger the aggregation specifications start from

---------------------------------------------------------------------------
(* Values *)

NULL == "<NULL>"
Income == "Income"
Expense == "Expense"
Other == "Other"

Dates == {<<2024, 3, 1>>, <<2024, 3, 31>>, <<2024, 4, 15>>}
FormDates == {<<2024, 3, 1>>, <<2024, 4, 15>>}

\* the first entry of each selectbox of categories
CategoryOf(t) == IF t = Income THEN "consulting" ELSE "payroll"

\* text order of the project names used (ASCII: upper case before lower case)
NameOrder == <<"A", "B", "Z", "a">>
NameRank(n) == CHOOSE i \in DOMAIN NameOrder : NameOrder[i] = n
NameLess(a, b) == NameRank(a) < NameRank(b)

\* st.text_input("프로젝트명"): what the project form may submit
FormNames == {"", "A"}
WideFormNames == {"", "A", "a", "B"}
Lower(n) == IF n = "A" THEN "a" ELSE IF n = "B" THEN "b" ELSE IF n = "Z" THEN "z" ELSE n

\* st.number_input("금액 (원)", min_value=0, ...)
FormAmounts == 0 .. 1

Columns == {"date", "type", "category", "project", "description", "amount"}

DateLeq(a, b) ==
    \/ a[1] < b[1]
    \/ a[1] = b[1] /\ a[2] < b[2]
    \/ a[1] = b[1] /\ a[2] = b[2] /\ a[3] <= b[3]

RECURSIVE Perms(_)
Perms(S) ==
    IF S = {} THEN {<<>>}
    ELSE UNION {{<<x>> \o p : p \in Perms(S \ {x})} : x \in S}

Range(s) == {s[i] : i \in DOMAIN s}

RECURSIVE SumAmount(_)
\* Series.sum() of the amount column
SumAmount(s) == IF s = <<>> THEN 0 ELSE s[1].amount + SumAmount(Tail(s))

---------------------------------------------------------------------------
(* The store *)

\* CREATE TABLE transactions: the columns declared NOT NULL
RequiredColumns == {"date", "type", "category", "amount"}

\* INSERT INTO transactions: id is the next rowid, the row is appended
InsertTransaction(table, d, t, c, p, desc, a) ==
    Append(table, [id |-> Len(table) + 1, date |-> d, type |-> t, category |-> c,
                   project |-> p, description |-> desc, amount |-> a])

add_transaction(table, d, t, c, p, desc, a) == InsertTransaction(table, d, t, c, p, desc, a)

\* name TEXT UNIQUE NOT NULL: sqlite compares TEXT with the BINARY collation
NameTakenNoCase(table, name) == \E i \in DOMAIN table : Lower(table[i].name) = Lower(name)
NameTaken(table, name) == \E i \in DOMAIN table : table[i].name = name

\* add_project: <<ok, table>>; IntegrityError is caught and reported as False
add_project(table, name, client, budget) ==
    IF NameTaken(table, name)
    THEN <<FALSE, table>>
    ELSE <<TRUE, Append(table, [id |-> Len(table) + 1, name |-> name, client |-> client,
                                budget |-> budget, status |-> "active"])>>

InWindow(r, start, end) == DateLeq(start, r.date) /\ DateLeq(r.date, end)

\* get_transactions: the frames SELECT ... WHERE date BETWEEN ... ORDER BY date DESC
\* may return; SQL leaves the order of rows with equal dates open
get_transactions(table, start, end) ==
    {s \in Perms({r \in Range(table) : InWindow(r, start, end)}) :
        \A i \in 1 .. Len(s) - 1 : DateLeq(s[i + 1].date, s[i].date)}

get_projectsAll(table) == table
\* get_projects: SELECT * FROM projects WHERE status='active'
get_projects(table) == SelectSeq(table, LAMBDA p : p.status = "active")

---------------------------------------------------------------------------
NoView == [kind |-> "none"]
NoForm == [op |-> "none"]

Init ==
    /\ transactions = <<>>
    /\ projects = <<>>
    /\ form = NoForm
    /\ msg = [op |-> "none", level |-> "none"]
    /\ view = NoView

AmountAcceptedZero(a) == a >= 0
\* if amount > 0:
AmountAccepted(a) == a > 0

\* the "💾 저장" button of the transaction form
SaveTransaction ==
    \E d \in FormDates, t \in {Income, Expense}, a \in FormAmounts,
       p \in {NULL} \cup {q.name : q \in Range(get_projects(projects))} :
        /\ Len(transactions) < MaxLedger
        /\ form' = [op |-> "save_transaction", date |-> d, type |-> t, project |-> p, amount |-> a]
        /\ IF AmountAccepted(a)
           THEN /\ transactions' = add_transaction(transactions, d, t, CategoryOf(t), p, "", a)
                /\ msg' = [op |-> "save_transaction", level |-> "success"]
           ELSE /\ transactions' = transactions
                /\ msg' = [op |-> "save_transaction", level |-> "error"]
        /\ view' = NoView
        /\ UNCHANGED projects

\* the "💾 프로젝트 저장" button of the project form
SubmitProject(name) ==
        /\ form' = [op |-> "save_project", name |-> name]
        /\ IF name # ""
           THEN LET res == add_project(projects, name, "", 0) IN
                /\ projects' = res[2]
                /\ msg' = [op |-> "save_project",
                           level |-> IF res[1] THEN "success" ELSE "error_duplicate"]
           ELSE /\ projects' = projects
                /\ msg' = [op |-> "save_project", level |-> "error_empty"]
        /\ view' = NoView
        /\ UNCHANGED transactions

SaveProject == \E name \in FormNames : SubmitProject(name)

\* a project's status leaves 'active' (done outside the application)
ArchiveProject ==
    \E i \in DOMAIN projects :
        /\ projects[i].status = "active"
        /\ projects' = [projects EXCEPT ![i].status = "archived"]
        /\ form' = NoForm
        /\ msg' = [op |-> "archive", level |-> "none"]
        /\ view' = NoView
        /\ UNCHANGED transactions

---------------------------------------------------------------------------
(* Import *)

\* the cells an uploaded sheet may carry
ImportCells ==
    {[date |-> <<2024, 3, 31>>, type |-> Income, category |-> c[1], project |-> "Z",
      description |-> "", amount |-> c[2]] :
     c \in {<<"consulting", 2>>, <<"consulting", -1>>, <<NULL, 2>>}}

\* the sheet lacks no column, one required column, or the optional project column
ColumnSets == {Columns} \cup {Columns \ {c} : c \in RequiredColumns \cup {"project"}}

SheetRows(cols) == {[c \in cols |-> r[c]] : r \in ImportCells}

\* pd.read_excel(uploaded_file): a frame with its columns and rows
Batches ==
    UNION {[cols : {cols}, rows : UNION {[1 .. n -> SheetRows(cols)] : n \in 0 .. MaxBatch}] :
           cols \in ColumnSets}

Cell(r, c) == IF c \in DOMAIN r THEN r[c] ELSE NULL

\* a NOT NULL column receives NULL: the column is not in the sheet, or the cell is empty
RowFails(r) ==
    \E c \in RequiredColumns : c \notin DOMAIN r \/ (c # "amount" /\ r[c] = NULL)

RECURSIVE InsertRows(_, _)
\* executemany of the INSERT, inside one transaction: <<ok, table so far>>
InsertRows(table, rows) ==
    IF rows = <<>> THEN <<TRUE, table>>
    ELSE IF RowFails(rows[1]) THEN <<FALSE, table>>
    ELSE InsertRows(InsertTransaction(table, rows[1]["date"], rows[1]["type"],
                                      rows[1]["category"], Cell(rows[1], "project"),
                                      Cell(rows[1], "description"), rows[1]["amount"]),
                    Tail(rows))

SameCells(row, r) ==
    /\ row.date = r["date"] /\ row.type = r["type"] /\ row.category = r["category"]
    /\ row.project = Cell(r, "project") /\ row.amount = r["amount"]

to_sqlSkipsKnownRows(table, batch) ==
    LET new == SelectSeq(batch.rows,
                         LAMBDA r : RowFails(r) \/ ~ \E i \in DOMAIN table : SameCells(table[i], r))
        res == InsertRows(table, new)
    IN  IF res[1] THEN res ELSE <<FALSE, table>>
\* DataFrame.to_sql(..., if_exists='append'): commit, or roll back and raise
to_sql(table, batch) ==
    LET res == InsertRows(table, batch.rows) IN
    IF res[1] THEN res ELSE <<FALSE, table>>

\* the "📥 데이터 가져오기" button
ImportData ==
    \E batch \in Batches :
        /\ Len(transactions) + Len(batch.rows) <= MaxLedger
        /\ form' = [op |-> "import", columns |-> batch.cols, count |-> Len(batch.rows)]
        /\ LET res == to_sql(transactions, batch) IN
           /\ transactions' = res[2]
           /\ msg' = IF res[1]
                     THEN [op |-> "import", level |-> "success", count |-> Len(batch.rows)]
                     ELSE [op |-> "import", level |-> "error"]
        /\ view' = NoView
        /\ UNCHANGED projects

---------------------------------------------------------------------------
(* Aggregations *)

OfType(df, t) == SelectSeq(df, LAMBDA r : r.type = t)
NotOfType(df, t) == SelectSeq(df, LAMBDA r : r.type # t)

\* a / b and q * k on exact quotients
Quot(a, b) == <<a, b>>
Scale(q, k) == <<q[1] * k, q[2]>>
Zero == <<0, 1>>

calculate_metricsExpenseIsRest(df) ==
    IF df = <<>> THEN <<0, 0, 0, Zero>>
    ELSE LET income == SumAmount(OfType(df, Income))
             expense == SumAmount(NotOfType(df, Income))
             profit == income - expense
         IN  <<income, expense, profit,
               IF income > 0 THEN Scale(Quot(profit, income), 100) ELSE Zero>>
\* calculate_metrics: <<income, expense, profit, profit_margin>>
calculate_metrics(df) ==
    IF df = <<>> THEN <<0, 0, 0, Zero>>
    ELSE LET income == SumAmount(OfType(df, Income))
             expense == SumAmount(OfType(df, Expense))
             profit == income - expense
         IN  <<income, expense, profit,
               IF income > 0 THEN Scale(Quot(profit, income), 100) ELSE Zero>>

notnaKeepsAll(df) == df
\* df[df['project'].notna()]
notna(df) == SelectSeq(df, LAMBDA r : r.project # NULL)

\* the lambda of .agg: income of the group minus expense of the group
GroupNet(df, p) ==
    LET g == SelectSeq(df, LAMBDA r : r.project = p) IN
    SumAmount(OfType(g, Income)) - SumAmount(OfType(g, Expense))

\* .groupby('project').agg(...).reset_index(): one row per key
groupby_project(df) ==
    {[project |-> p, net |-> GroupNet(df, p)] : p \in {df[i].project : i \in DOMAIN df}}

\* sort_values('순이익', ascending=False) with the default kind='quicksort', which
\* is not a stable sort: every descending arrangement of the rows is an outcome
sort_values(rows) ==
    {s \in Perms(rows) : \A i \in 1 .. Len(s) - 1 : s[i].net >= s[i + 1].net}

\* project_profitability: the frames it may return
project_profitability(df) ==
    IF df = <<>> THEN {<<>>} ELSE sort_values(groupby_project(notna(df)))

MonthOfKeepsDay(d) == d
\* dt.to_period('M').astype(str): "YYYY-MM"
MonthOf(d) == <<d[1], d[2]>>
\* text order of "YYYY-MM"
MonthLess(a, b) == a[1] < b[1] \/ (a[1] = b[1] /\ a[2] < b[2])

\* df.groupby(['month', 'type'])['amount'].sum().reset_index()
monthly_report(df) ==
    {[month |-> k[1], type |-> k[2],
      amount |-> SumAmount(SelectSeq(df, LAMBDA r : MonthOf(r.date) = k[1] /\ r.type = k[2]))] :
     k \in {<<MonthOf(df[i].date), df[i].type>> : i \in DOMAIN df}}

\* monthly_pivot.get(t, 0)
Get(row, t) == IF t \in DOMAIN row THEN row[t] ELSE 0

\* .pivot(index='month', columns='type', values='amount').fillna(0), then the
\* column '순이익'; rows in ascending order of the index
monthly_pivot(df) ==
    LET report == monthly_report(df)
        months == {e.month : e \in report}
        types == {e.type : e \in report}
        cells(m) == [t \in types |->
                        IF \E e \in report : e.month = m /\ e.type = t
                        THEN (CHOOSE e \in report : e.month = m /\ e.type = t).amount
                        ELSE 0]
        index == CHOOSE s \in Perms(months) :
                    \A i \in 1 .. Len(s) - 1 : ~ MonthLess(s[i + 1], s[i])
    IN  [i \in DOMAIN index |->
            [month |-> index[i], cols |-> cells(index[i]),
             net |-> Get(cells(index[i]), Income) - Get(cells(index[i]), Expense)]]

---------------------------------------------------------------------------
(* Pages *)

\* the sidebar's 시작일 / 종료일
Windows ==
    {<<(<<2024, 3, 1>>), (<<2024, 4, 15>>)>>, <<(<<2024, 3, 1>>), (<<2024, 3, 31>>)>>,
     <<(<<2024, 3, 31>>), (<<2024, 4, 15>>)>>}

\* menu "📊 대시보드"
Dashboard ==
    \E w \in Windows :
    \E df \in get_transactions(transactions, w[1], w[2]) :
    \E pp \in project_profitability(df) :
        /\ form' = [op |-> "dashboard", start |-> w[1], end |-> w[2]]
        /\ msg' = [op |-> "dashboard", level |-> IF df = <<>> THEN "info" ELSE "none"]
        /\ view' = [kind |-> "dashboard", metrics |-> calculate_metrics(df), profit |-> pp]
        /\ UNCHANGED <<transactions, projects>>

\* menu "📈 리포트"
Report ==
    \E w \in Windows :
    \E df \in get_transactions(transactions, w[1], w[2]) :
        /\ form' = [op |-> "report", start |-> w[1], end |-> w[2]]
        /\ IF df # <<>>
           THEN /\ msg' = [op |-> "report", level |-> "none"]
                /\ view' = [kind |-> "report", pivot |-> monthly_pivot(df)]
           ELSE /\ msg' = [op |-> "report", level |-> "info"]
                /\ view' = NoView
        /\ UNCHANGED <<transactions, projects>>

\* menu "⚙️ 데이터 관리", tab Export
ExportData ==
    \E w \in Windows :
    \E df \in get_transactions(transactions, w[1], w[2]) :
        /\ form' = [op |-> "export", start |-> w[1], end |-> w[2]]
        /\ IF df # <<>>
           THEN /\ msg' = [op |-> "export", level |-> "none"]
                /\ view' = [kind |-> "export",
                            artifact |-> IF get_projects(projects) # <<>>
                                         THEN [transactions |-> df,
                                               projects |-> get_projects(projects)]
                                         ELSE [transactions |-> df]]
           ELSE /\ msg' = [op |-> "export", level |-> "info"]
                /\ view' = NoView
        /\ UNCHANGED <<transactions, projects>>

Next ==
    \/ SaveTransaction
    \/ SaveProject
    \/ ArchiveProject
    \/ ImportData
    \/ Dashboard
    \/ Report
    \/ ExportData

Spec == Init /\ [][Next]_vars

---------------------------------------------------------------------------
(* Specifications of the aggregations: the ledger is any table of at most    *)
(* MaxRows rows (an import can store any of them), and the pages render it.  *)

WithIds(s) ==
    [i \in DOMAIN s |->
        [id |-> i, date |-> s[i].date, type |-> s[i].type, category |-> s[i].category,
         project |-> s[i].project, description |-> s[i].description, amount |-> s[i].amount]]

Ledgers(cells) == UNION {{WithIds(s) : s \in [1 .. n -> cells]} : n \in 0 .. MaxRows}

MetricCells ==
    [date : {<<2024, 3, 1>>}, type : {Income, Expense, Other}, category : {"consulting"},
     project : {NULL}, description : {""}, amount : -1 .. 2]

ProfitCells ==
    [date : {<<2024, 3, 1>>}, type : {Income}, category : {"consulting"},
     project : {NULL, "A", "B"}, description : {""}, amount : 1 .. 2]
    \cup [date : {<<2024, 3, 1>>}, type : {Expense}, category : {"payroll"},
          project : {NULL, "A", "B"}, description : {""}, amount : {1}]

ReportCells ==
    [date : Dates, type : {Income}, category : {"consulting"},
     project : {NULL}, description : {""}, amount : 1 .. 2]
    \cup [date : Dates, type : {Expense}, category : {"payroll"},
          project : {NULL}, description : {""}, amount : {1}]
    \cup [date : {<<2024, 3, 31>>}, type : {Other}, category : {"consulting"},
          project : {NULL}, description : {""}, amount : {1}]

ProjectRow(n, st) == [id |-> 1, name |-> n, client |-> "", budget |-> 0, status |-> st]

InitPages(cells, tables) ==
    /\ transactions \in Ledgers(cells)
    /\ projects \in tables
    /\ form = NoForm
    /\ msg = [op |-> "none", level |-> "none"]
    /\ view = NoView

InitMetrics == InitPages(MetricCells, {<<>>})
InitProfit ==
    InitPages(ProfitCells, {<<>>, <<ProjectRow("A", "archived")>>})
InitReport == InitPages(ReportCells, {<<>>})

SpecMetrics == InitMetrics /\ [][Dashboard]_vars
SpecProfit == InitProfit /\ [][Dashboard]_vars
SpecReport == InitReport /\ [][Report]_vars

\* the project form with a wider choice of names, and the status change
SaveProjectWide == \E name \in WideFormNames : SubmitProject(name)
NextProjects == SaveProjectWide \/ ArchiveProject
SpecProjects == Init /\ [][NextProjects]_vars
---------------------------------------------------------------------------
(* Properties *)

RECURSIVE SetSum(_)
\* the sum of amount over a set of rows
SetSum(S) ==
    IF S = {} THEN 0
    ELSE LET r == CHOOSE x \in S : TRUE IN r.amount + SetSum(S \ {r})

\* the rows of the ledger inside the window the page was rendered for
WindowRows == {r \in Range(transactions) : InWindow(r, form.start, form.end)}
RowsOfType(S, t) == {r \in S : r.type = t}

\* C1: the dashboard's metrics are (sum of Income amounts, sum of Expense
\* amounts, their difference, difference / income * 100 when income > 0 and 0
\* otherwise) over the transactions of the window, and (0, 0, 0, 0) for none.
C1_Metrics ==
    view.kind = "dashboard" =>
        LET inc == SetSum(RowsOfType(WindowRows, Income))
            exp == SetSum(RowsOfType(WindowRows, Expense))
            m == view.metrics
        IN  /\ m[1] = inc
            /\ m[2] = exp
            /\ m[3] = inc - exp
            /\ m[3] = m[1] - m[2]
            /\ m[4][2] # 0
            /\ inc > 0 => m[4][1] * inc = (inc - exp) * 100 * m[4][2]
            /\ ~ (inc > 0) => m[4][1] = 0
            /\ WindowRows = {} => m = <<0, 0, 0, Zero>>

\* a dashboard over income, expense and a row of another type, at a loss
C1_Witness ==
    /\ view.kind = "dashboard"
    /\ view.metrics[1] > 0
    /\ view.metrics[3] < 0
    /\ \E r \in RowsOfType(WindowRows, Other) : r.amount > 0

\* C2: every stored transaction has amount >= 0.
C2_AmountsNonNegative == \A i \in DOMAIN transactions : transactions[i].amount >= 0

\* C3: the profitability table is in descending order of net contribution,
\* and projects of equal net contribution are in ascending order of name.
C3_SortedWithTieBreak ==
    view.kind = "dashboard" =>
        \A i, j \in DOMAIN view.profit :
            i < j =>
                \/ view.profit[i].net > view.profit[j].net
                \/ /\ view.profit[i].net = view.profit[j].net
                   /\ NameLess(view.profit[i].project, view.profit[j].project)

\* C9: the profitability table has exactly one entry per project name carried
\* by a transaction of the window, valued income minus expense of that project;
\* transactions without a project are left out, and a name that is not a
\* project of the store is reported like any other.
C9_Groups ==
    view.kind = "dashboard" =>
        LET named == {r \in WindowRows : r.project # NULL}
            keys == {r.project : r \in named}
            p == view.profit
        IN  /\ {p[i].project : i \in DOMAIN p} = keys
            /\ Len(p) = Cardinality(keys)
            /\ \A i \in DOMAIN p :
                   p[i].net = SetSum({r \in named : r.project = p[i].project /\ r.type = Income})
                            - SetSum({r \in named : r.project = p[i].project /\ r.type = Expense})

\* a table reporting a name the store does not know beside an archived project,
\* over a window that also holds a transaction without project
C9_Witness ==
    /\ view.kind = "dashboard"
    /\ \E r \in WindowRows : r.project = NULL
    /\ \E i \in DOMAIN projects : projects[i].status = "archived"
    /\ \E i, j \in DOMAIN view.profit :
           /\ ~ NameTaken(projects, view.profit[i].project)
           /\ NameTaken(projects, view.profit[j].project)
           /\ view.profit[i].net < 0

YearMonth(d) == <<d[1], d[2]>>
YearMonthLess(a, b) == a[1] < b[1] \/ (a[1] = b[1] /\ a[2] < b[2])
MonthRows(S, m, t) == {r \in S : YearMonth(r.date) = m /\ r.type = t}

\* the rows of the pivot: one per year-month of the window, ascending, with
\* net = income - expense of the month
PivotRows(pv) ==
    LET months == {YearMonth(r.date) : r \in WindowRows} IN
    /\ Len(pv) = Cardinality(months)
    /\ {pv[i].month : i \in DOMAIN pv} = months
    /\ \A i, j \in DOMAIN pv : i < j => YearMonthLess(pv[i].month, pv[j].month)
    /\ \A i \in DOMAIN pv :
           pv[i].net = SetSum(MonthRows(WindowRows, pv[i].month, Income))
                     - SetSum(MonthRows(WindowRows, pv[i].month, Expense))

\* C4 (as stated): one row per year-month with a transaction, ascending; every
\* row reports the month's Income sum, the month's Expense sum and their
\* difference, with 0 for a type the month lacks, also when no transaction of
\* that type exists in the whole input.
C4_Original ==
    view.kind = "report" =>
        /\ PivotRows(view.pivot)
        /\ \A i \in DOMAIN view.pivot : \A t \in {Income, Expense} :
               /\ t \in DOMAIN view.pivot[i].cols
               /\ view.pivot[i].cols[t] = SetSum(MonthRows(WindowRows, view.pivot[i].month, t))

\* C4 (amended): one row per year-month with a transaction, ascending; net is
\* the month's Income sum minus its Expense sum; a row reports a type exactly
\* when some transaction of the input has that type, and then with the month's
\* sum of it (0 when the month has none).
C4_Amended ==
    view.kind = "report" =>
        /\ PivotRows(view.pivot)
        /\ \A i \in DOMAIN view.pivot : \A t \in {Income, Expense} :
               /\ t \in DOMAIN view.pivot[i].cols <=> RowsOfType(WindowRows, t) # {}
               /\ t \in DOMAIN view.pivot[i].cols =>
                      view.pivot[i].cols[t] = SetSum(MonthRows(WindowRows, view.pivot[i].month, t))

\* a report of two months, one of them holding two days of the same month and
\* no expense, which it reports as 0
C4_Witness ==
    /\ view.kind = "report"
    /\ Len(view.pivot) = 2
    /\ \E r1, r2 \in WindowRows :
           /\ r1.date # r2.date
           /\ YearMonth(r1.date) = YearMonth(r2.date)
           /\ \E i \in DOMAIN view.pivot :
                  /\ view.pivot[i].month = YearMonth(r1.date)
                  /\ Expense \in DOMAIN view.pivot[i].cols
                  /\ view.pivot[i].cols[Expense] = 0

Extends(new, old) == Len(new) >= Len(old) /\ SubSeq(new, 1, Len(old)) = old

NoDuplicateNames ==
    \A i, j \in DOMAIN projects : projects[i].name = projects[j].name => i = j

\* C5: saving a project succeeds exactly when its name is not empty and is
\* the name of no stored project, active or archived, compared exactly; then
\* the project is added, otherwise the table is unchanged; no two projects
\* ever share a name.
C5_ProjectCreation ==
    /\ [][msg'.op = "save_project" =>
            LET name == form'.name
                fresh == name # "" /\ \A i \in DOMAIN projects : projects[i].name # name
            IN  /\ msg'.level = "success" <=> fresh
                /\ fresh => /\ Len(projects') = Len(projects) + 1
                            /\ Extends(projects', projects)
                            /\ projects'[Len(projects')].name = name
                            /\ projects'[Len(projects')].status = "active"
                /\ ~ fresh => projects' = projects]_vars
    /\ []NoDuplicateNames

\* a name refused because an archived project bears it, beside a project whose
\* name differs from it in case only
C5_Witness ==
    /\ msg.op = "save_project"
    /\ msg.level = "error_duplicate"
    /\ \E i, j \in DOMAIN projects :
           /\ projects[i].name = form.name
           /\ projects[i].status = "archived"
           /\ projects[j].name # form.name
           /\ Lower(projects[j].name) = Lower(form.name)

\* C6: on the entry form an amount of 0 is refused and nothing is written;
\* an amount above 0 is accepted and adds exactly one transaction, the one
\* entered.
C6_EntryValidation ==
    [][msg'.op = "save_transaction" =>
        /\ form'.amount = 0 => msg'.level = "error" /\ transactions' = transactions
        /\ form'.amount > 0 =>
               /\ msg'.level = "success"
               /\ Len(transactions') = Len(transactions) + 1
               /\ Extends(transactions', transactions)
               /\ LET r == transactions'[Len(transactions')] IN
                  /\ r.amount = form'.amount /\ r.date = form'.date
                  /\ r.type = form'.type /\ r.project = form'.project]_vars

\* an amount of 0 refused while the ledger holds a transaction
C6_Witness ==
    /\ msg.op = "save_transaction"
    /\ msg.level = "error"
    /\ form.amount = 0
    /\ Len(transactions) > 0

\* C7: an import of a sheet that lacks a required column is reported as an
\* error and leaves the ledger as it was.
C7_MissingColumnRejected ==
    [][(msg'.op = "import" /\ ~ (RequiredColumns \subseteq form'.columns)) =>
        msg'.level = "error" /\ transactions' = transactions]_vars

\* C8: a successful import of n rows adds exactly n transactions after the
\* ones stored, whatever the ledger holds already, and reports n.
C8_ImportAppends ==
    [][(msg'.op = "import" /\ msg'.level = "success") =>
        /\ Len(transactions') = Len(transactions) + form'.count
        /\ Extends(transactions', transactions)
        /\ msg'.count = form'.count]_vars

SameButId(a, b) ==
    /\ a.date = b.date /\ a.type = b.type /\ a.category = b.category
    /\ a.project = b.project /\ a.description = b.description /\ a.amount = b.amount

\* a one-row sheet imported again: the ledger holds its row twice
C8_Witness ==
    /\ msg.op = "import"
    /\ msg.level = "success"
    /\ msg.count = 1
    /\ \E i, j \in DOMAIN transactions :
           i < j /\ j = Len(transactions) /\ SameButId(transactions[i], transactions[j])

ActiveProjects == SelectSeq(projects, LAMBDA q : q.status = "active")

\* what an export step must do; sheets says what holds of the artifact's sheets
ExportStep(sheets) ==
    msg'.op = "export" =>
        LET S == {r \in Range(transactions) : InWindow(r, form'.start, form'.end)}
        IN  /\ view'.kind = "export" <=> S # {}
            /\ view'.kind = "export" =>
                   /\ "transactions" \in DOMAIN view'.artifact
                   /\ Range(view'.artifact.transactions) = S
                   /\ Len(view'.artifact.transactions) = Cardinality(S)
                   /\ \A i \in 1 .. Len(view'.artifact.transactions) - 1 :
                          DateLeq(view'.artifact.transactions[i + 1].date,
                                  view'.artifact.transactions[i].date)
                   /\ sheets
            /\ transactions' = transactions
            /\ projects' = projects

BothSheets(artifact, active) ==
    /\ DOMAIN artifact = {"transactions", "projects"}
    /\ artifact.projects = active

ProjectsSheetIfAny(artifact, active) ==
    /\ DOMAIN artifact \subseteq {"transactions", "projects"}
    /\ "projects" \in DOMAIN artifact <=> active # <<>>
    /\ "projects" \in DOMAIN artifact => artifact.projects = active

\* C10 (as stated): an artifact is produced exactly when the window holds a
\* transaction; it has a transactions sheet with exactly the window's
\* transactions, latest date first, and a projects sheet with exactly the
\* active projects, also when there is none; the export changes nothing.
C10_Original == [][ExportStep(BothSheets(view'.artifact, ActiveProjects))]_vars

\* C10 (amended): as stated, except that the artifact has the projects sheet
\* exactly when there is at least one active project.
C10_Amended == [][ExportStep(ProjectsSheetIfAny(view'.artifact, ActiveProjects))]_vars

\* an artifact without projects sheet although the store holds a project
C10_Witness ==
    /\ view.kind = "export"
    /\ "projects" \notin DOMAIN view.artifact
    /\ projects # <<>>
    /\ Len(view.artifact.transactions) = 2
====
